---- MODULE Spec2Model ----
(***************************************************************************)
(* EchoMind client: the ChartCanvas drawing effect (client/src/App.jsx,    *)
(* lines 39-111).  The effect reads the props (data, type) and the canvas, *)
(* and issues calls on the 2d drawing context.  The model keeps the props, *)
(* the primitives that are on the canvas, and a record of what the last    *)
(* run of the effect did.                                                  *)
(*                                                                         *)
(* The Home page (client/src/pages/Home.jsx): its two pieces of state,     *)
(* isAnalyzing and error, and the asynchronous submit handler, one action  *)
(* for each stretch of the handler between two awaits.                     *)
(*                                                                         *)
(* JavaScript numbers are modelled as exact rationals n/d in lowest terms  *)
(* (IEEE-754 rounding is not modelled); NaN and Infinity are values of     *)
(* their own.  Strings that the code takes apart (the property keys) are   *)
(* sequences of one-character strings.                                     *)
(***************************************************************************)
EXTENDS Integers, Sequences, FiniteSets, TLC

VARIABLES data, type, surface, run, last,
          isAnalyzing, error, onSuccess, pc, response, delivered, submits

chartVars == <<data, type, surface, run, last>>

homeVars == <<isAnalyzing, error, onSuccess, pc, response, delivered, submits>>

vars == <<data, type, surface, run, last,
          isAnalyzing, error, onSuccess, pc, response, delivered, submits>>

----------------------------------------------------------------------------
(* Bounds of the model *)

\* longest sequence of frames the host passes to a series chart
MaxFrames == 4
\* most categories the host passes to a bar chart in the partition study
MaxCats == 80
\* longest category key in the label study
MaxKeyLen == 3
\* most channels a series grows to by adding channels
MaxChannels == 5
\* most submissions of the Home form in one behaviour
MaxSubmits == 3

----------------------------------------------------------------------------
(* The canvas element: <canvas width={800} height={200}> *)

W == 800
H == 200

----------------------------------------------------------------------------
(* The shapes of the records of the model.                                 *)
(*                                                                         *)
(* A JavaScript value is a record                                          *)
(*   t      "undefined" | "null" | "number" | "NaN" | "Infinity" |         *)
(*          "string" | "object" | "array"                                  *)
(*   n, d   the number n/d (d > 0, lowest terms); the sign for Infinity    *)
(*   items  the elements of an array, or the own properties of an object   *)
(*          in insertion order, each [k |-> key, v |-> value]              *)
(*                                                                         *)
(* What the drawing context is asked to draw is a stroke, a fillRect or a  *)
(* fillText.  A path that is begun but never stroked leaves nothing.       *)

JsVal(t, n, d, items) == [t |-> t, n |-> n, d |-> d, items |-> items]

Prop(k, v) == [k |-> k, v |-> v]

Stroke(style, lineWidth, pts) ==
    [style |-> style, lineWidth |-> lineWidth, pts |-> pts, op |-> "stroke"]

FillRect(style, x, y, w, h) ==
    [style |-> style, op |-> "fillRect", x |-> x, y |-> y, w |-> w, h |-> h]

FillText(style, font, text, x, y) ==
    [style |-> style, op |-> "fillText", x |-> x, y |-> y, font |-> font,
     text |-> text]

\* what one run of the effect did: whether it cleared the canvas, the grid
\* and the chart body it drew, whether it raised, the divisors it used in
\* the position formulas; and what the canvas shows after it
Outcome(shown, cleared, grid, body, raised, divisors) ==
    [surface |-> shown, cleared |-> cleared, grid |-> grid, body |-> body,
     raised |-> raised, divisors |-> divisors]

\* what one branch of the effect did
Drawn(body, raised, divisors) ==
    [body |-> body, raised |-> raised, divisors |-> divisors]

----------------------------------------------------------------------------
(* Integer helpers *)

Abs(x) == IF x < 0 THEN -x ELSE x

RECURSIVE Gcd(_, _)
Gcd(a, b) == IF b = 0 THEN a ELSE Gcd(b, a % b)

SeqToSet(s) == {s[i] : i \in 1..Len(s)}

RECURSIVE Concat(_)
Concat(ss) == IF ss = <<>> THEN <<>> ELSE Head(ss) \o Concat(Tail(ss))

----------------------------------------------------------------------------
(* JavaScript values *)

Undefined == JsVal("undefined", 0, 1, <<>>)
Null == JsVal("null", 0, 1, <<>>)
NaN == JsVal("NaN", 0, 1, <<>>)
Infinity(sign) == JsVal("Infinity", sign, 1, <<>>)
\* a non-empty string that is not the text of a number, such as "n/a"
Text == JsVal("string", 0, 1, <<>>)

Num(n, d) ==
    LET s == IF d < 0 THEN -1 ELSE 1
        g == Gcd(Abs(n), Abs(d))
    IN  JsVal("number", (s * n) \div g, (s * d) \div g, <<>>)

Whole(n) == Num(n, 1)

Obj(props) == JsVal("object", 0, 1, props)
Arr(elems) == JsVal("array", 0, 1, elems)

IsNum(v) == v.t = "number"

\* ToNumber, as the operators * and - apply it to their operands
ToNumber(v) ==
    CASE v.t = "number" -> v
      [] v.t = "Infinity" -> v
      [] v.t = "null" -> Whole(0)
      [] OTHER -> NaN

Sign(v) == IF v.n < 0 THEN -1 ELSE IF v.n > 0 THEN 1 ELSE 0

JsMul(a, b) ==
    LET x == ToNumber(a)
        y == ToNumber(b)
    IN  CASE x.t = "NaN" \/ y.t = "NaN" -> NaN
          [] x.t = "Infinity" \/ y.t = "Infinity" ->
                IF Sign(x) * Sign(y) = 0 THEN NaN ELSE Infinity(Sign(x) * Sign(y))
          [] OTHER -> Num(x.n * y.n, x.d * y.d)

JsAdd(a, b) ==
    LET x == ToNumber(a)
        y == ToNumber(b)
    IN  CASE x.t = "NaN" \/ y.t = "NaN" -> NaN
          [] x.t = "Infinity" /\ y.t = "Infinity" ->
                IF x.n = y.n THEN x ELSE NaN
          [] x.t = "Infinity" -> x
          [] y.t = "Infinity" -> y
          [] OTHER -> Num(x.n * y.d + y.n * x.d, x.d * y.d)

JsNeg(a) ==
    LET x == ToNumber(a)
    IN  CASE x.t = "NaN" -> NaN
          [] x.t = "Infinity" -> Infinity(-x.n)
          [] OTHER -> Num(-x.n, x.d)

JsSub(a, b) == JsAdd(a, JsNeg(b))

JsDiv(a, b) ==
    LET x == ToNumber(a)
        y == ToNumber(b)
    IN  CASE x.t = "NaN" \/ y.t = "NaN" -> NaN
          [] x.t = "Infinity" /\ y.t = "Infinity" -> NaN
          [] x.t = "Infinity" -> Infinity(IF Sign(y) < 0 THEN -x.n ELSE x.n)
          [] y.t = "Infinity" -> Whole(0)
          [] y.n = 0 -> IF x.n = 0 THEN NaN ELSE Infinity(Sign(x))
          [] OTHER -> Num(x.n * y.d, x.d * y.n)

\* comparisons of finite numbers
Lt(a, b) == a.n * b.d < b.n * a.d
Le(a, b) == a.n * b.d <= b.n * a.d

\* the truthiness that !data and (v || 0) test
Truthy(v) ==
    CASE v.t \in {"undefined", "null", "NaN"} -> FALSE
      [] v.t = "number" -> v.n # 0
      [] OTHER -> TRUE

\* v || 0
OrZero(v) == IF Truthy(v) THEN v ELSE Whole(0)

----------------------------------------------------------------------------
(* Strings (property keys and drawn text) as sequences of characters *)

Digits == <<"0", "1", "2", "3", "4", "5", "6", "7", "8", "9">>

DigitVal(c) == CHOOSE i \in 0..9 : Digits[i + 1] = c

IsDigit(c) == \E i \in 1..10 : Digits[i] = c

\* the decimal text of a natural number
RECURSIVE Decimal(_)
Decimal(n) ==
    IF n < 10 THEN <<Digits[n + 1]>>
    ELSE Append(Decimal(n \div 10), Digits[(n % 10) + 1])

\* the number a canonical array-index key stands for
RECURSIVE KeyNum(_)
KeyNum(k) ==
    IF k = <<>> THEN 0
    ELSE 10 * KeyNum(SubSeq(k, 1, Len(k) - 1)) + DigitVal(k[Len(k)])

\* an integer-like key: the canonical decimal text of a natural number
IsArrayIndex(k) ==
    /\ Len(k) >= 1
    /\ \A i \in 1..Len(k) : IsDigit(k[i])
    /\ (Len(k) = 1 \/ k[1] # "0")

RECURSIVE SortKeys(_)
SortKeys(S) ==
    IF S = {} THEN <<>>
    ELSE LET m == CHOOSE k \in S : \A o \in S : KeyNum(k) <= KeyNum(o)
         IN  <<m>> \o SortKeys(S \ {m})

\* the keys that are not integer-like, in insertion order
OtherKeys(props) ==
    SelectSeq([i \in 1..Len(props) |-> props[i].k],
              LAMBDA k : ~IsArrayIndex(k))

\* Object.keys(v) for a value that is neither null nor undefined: the
\* indices of an array; for an object the integer-like keys in ascending
\* numeric order, then the other keys in insertion order; none for a number
ObjectKeys(v) ==
    CASE v.t = "array" -> [i \in 1..Len(v.items) |-> Decimal(i - 1)]
      [] v.t = "object" ->
            SortKeys({v.items[i].k : i \in {j \in 1..Len(v.items) :
                                              IsArrayIndex(v.items[j].k)}})
                \o OtherKeys(v.items)
      [] OTHER -> <<>>

\* v[key] for a value that is neither null nor undefined
Get(v, key) ==
    CASE v.t = "array" ->
            IF IsArrayIndex(key) /\ KeyNum(key) < Len(v.items)
            THEN v.items[KeyNum(key) + 1] ELSE Undefined
      [] v.t = "object" ->
            IF \E i \in 1..Len(v.items) : v.items[i].k = key
            THEN v.items[CHOOSE i \in 1..Len(v.items) : v.items[i].k = key].v
            ELSE Undefined
      [] OTHER -> Undefined

\* Object.keys and v[key] raise a TypeError on null and undefined
Nullish(v) == v.t \in {"undefined", "null"}

\* key.replace(/_/g, ' ')
ReplaceUnderscores(key) ==
    [i \in 1..Len(key) |-> IF key[i] = "_" THEN " " ELSE key[i]]

\* s.split(' '): the pieces between the spaces, empty pieces included
RECURSIVE Split(_)
Split(s) ==
    IF \A i \in 1..Len(s) : s[i] # " " THEN <<s>>
    ELSE LET p == CHOOSE i \in 1..Len(s) :
                    s[i] = " " /\ \A j \in 1..(i - 1) : s[j] # " "
         IN  <<SubSeq(s, 1, p - 1)>> \o Split(SubSeq(s, p + 1, Len(s)))

\* const label = key.replace(/_/g, ' ').split(' ')[0]
ShortLabel(key) == Split(ReplaceUnderscores(key))[1]

\* v.toFixed(2) for a finite number v: the nearest number of hundredths, the
\* larger one on a tie, written with a sign, an integer part and two digits
ToFixed2(v) ==
    LET a == Abs(v.n)
        hundredths == (200 * a + v.d) \div (2 * v.d)
        frac == hundredths % 100
    IN  (IF v.n < 0 THEN <<"-">> ELSE <<>>)
            \o Decimal(hundredths \div 100)
            \o <<".", Digits[(frac \div 10) + 1], Digits[(frac % 10) + 1]>>

\* only numbers have a toFixed method: val.toFixed(2) raises a TypeError for
\* a string or an object
HasToFixed(v) == v.t \in {"number", "NaN", "Infinity"}

----------------------------------------------------------------------------
(* The colours and fonts of the chart *)

GridColor == "rgba(255,255,255,0.1)"
BarColor == "rgba(124,92,255,0.85)"
ValueColor == "#fff"
LabelColor == "rgba(255,255,255,0.6)"
ValueFont == "11px sans-serif"
LabelFont == "10px sans-serif"

colors == <<"#7c5cff", "#22c55e", "#fbbf24", "#ef4444">>

KeyTime == <<"t", "i", "m", "e">>

----------------------------------------------------------------------------
(* The effect, step by step *)

\* if (!canvas || !data) return;   (the canvas is mounted when effects run)
AbsentData(d) == ~Truthy(d)

\* for (let i = 0; i <= 4; i++) { y = 20 + (H - 40) * (i / 4); line 0..W }
GridLine(i) ==
    LET y == JsAdd(Whole(20), JsMul(Whole(H - 40), JsDiv(Whole(i), Whole(4))))
    IN  Stroke(GridColor, 1, << <<Whole(0), y>>, <<Whole(W), y>> >>)

Grid == [i \in 1..5 |-> GridLine(i - 1)]

\* the guard with the length test off by one: data.length > 0
SeriesAppliesFromOne(d, ty) == ty = "motion" /\ d.t = "array" /\ Len(d.items) > 0

\* type === 'motion' && Array.isArray(data) && data.length > 1
SeriesApplies(d, ty) == ty = "motion" /\ d.t = "array" /\ Len(d.items) > 1

\* type === 'bar' && typeof data === 'object'
BarApplies(d, ty) == ty = "bar" /\ d.t \in {"object", "array", "null"}

\* the keys without the filter
ChannelKeysUnfiltered(frame) == ObjectKeys(frame)

\* Object.keys(data[0]).filter(k => k !== 'time')
ChannelKeys(frame) == SelectSeq(ObjectKeys(frame), LAMBDA k : k # KeyTime)

\* the palette held at its last colour instead of cycling
ColorAtClamped(idx) ==
    colors[IF idx < Len(colors) THEN idx + 1 ELSE Len(colors)]

\* colors[idx % colors.length], idx counted from 0
ColorAt(idx) == colors[(idx % Len(colors)) + 1]

\* x over the number of frames instead of the number of intervals
PointXByLength(i, n) == JsMul(JsDiv(Whole(i), Whole(n)), Whole(W))

\* const x = (i / (data.length - 1)) * W, i counted from 0
PointX(i, n) == JsMul(JsDiv(Whole(i), Whole(n - 1)), Whole(W))

\* const y = H - 20 - (val * (H - 40))
PointY(val) == JsSub(Whole(H - 20), JsMul(val, Whole(H - 40)))

\* const val = point[key] || 0
ValueOf(obj, key) == OrZero(Get(obj, key))

\* the body of data.forEach((point, i) => ...) for one key
PathOf(d, key) ==
    [i \in 1..Len(d.items) |->
        <<PointX(i - 1, Len(d.items)), PointY(ValueOf(d.items[i], key))>>]

\* keys.forEach((key, idx) => { beginPath ... stroke }) from the idx-th key
\* on, after the paths in `done`: reading point[key] of a null frame raises
\* before the path is stroked; x divides by data.length - 1
RECURSIVE StrokeKeys(_, _, _, _)
StrokeKeys(d, keys, idx, done) ==
    IF idx > Len(keys) THEN Drawn(done, FALSE, {Len(d.items) - 1})
    ELSE IF \E i \in 1..Len(d.items) : Nullish(d.items[i])
         THEN Drawn(done, TRUE, {Len(d.items) - 1})
         ELSE StrokeKeys(d, keys, idx + 1,
                  Append(done, Stroke(ColorAt(idx - 1), 2, PathOf(d, keys[idx]))))

\* the motion branch, lines 62-76
DrawSeries(d) ==
    IF Nullish(d.items[1]) THEN Drawn(<<>>, TRUE, {})
    ELSE IF ChannelKeys(d.items[1]) = <<>> THEN Drawn(<<>>, FALSE, {})
    ELSE StrokeKeys(d, ChannelKeys(d.items[1]), 1, <<>>)

\* const barW = (W - 20) / keys.length
BarSlot(m) == JsDiv(Whole(W - 20), Whole(m))

\* the bar origin without the 5 of left margin
BarXNoMargin(i, barW) == JsAdd(Whole(10), JsMul(Whole(i), barW))

\* const x = 10 + i * barW + 5, i counted from 0
BarX(i, barW) == JsAdd(JsAdd(Whole(10), JsMul(Whole(i), barW)), Whole(5))

\* const h = val * (H - 40)
BarHeight(val) == JsMul(val, Whole(H - 40))

\* the bar origin measured from the bottom edge instead of the baseline
BarYFromBottom(h) == JsSub(Whole(H), h)

\* const y = H - 20 - h
BarY(h) == JsSub(Whole(H - 20), h)

\* ctx.fillRect(x, y, barW - 10, h)
BarRect(i, barW, val) ==
    FillRect(BarColor, BarX(i, barW), BarY(BarHeight(val)),
             JsSub(barW, Whole(10)), BarHeight(val))

\* ctx.fillText(val.toFixed(2), x, y - 6)
ValueText(i, barW, val) ==
    FillText(ValueColor, ValueFont,
             CASE IsNum(val) -> ToFixed2(val)
               [] val.t = "NaN" -> <<"N", "a", "N">>
               [] OTHER -> (IF val.n < 0 THEN <<"-">> ELSE <<>>)
                            \o <<"I", "n", "f", "i", "n", "i", "t", "y">>,
             BarX(i, barW), JsSub(BarY(BarHeight(val)), Whole(6)))

\* ctx.fillText(label, x, H-5)
LabelText(i, barW, key) ==
    FillText(LabelColor, LabelFont, ShortLabel(key), BarX(i, barW), Whole(H - 5))

\* the first key (from 1) whose val has no toFixed, Len(keys) + 1 if none
FirstRaise(d, keys) ==
    LET bad == {j \in 1..Len(keys) : ~HasToFixed(ValueOf(d, keys[j]))}
    IN  IF bad = {} THEN Len(keys) + 1
        ELSE CHOOSE j \in bad : \A o \in bad : j <= o

\* keys.forEach((key, i) => ...): per key the bar, the value and the label,
\* up to the key where val.toFixed raises, whose bar is already filled
FillBars(d, keys) ==
    LET stop == FirstRaise(d, keys)
        barW == BarSlot(Len(keys))
        count == 3 * (stop - 1) + (IF stop <= Len(keys) THEN 1 ELSE 0)
    IN  Drawn([c \in 1..count |->
                    LET j == ((c - 1) \div 3) + 1
                        val == ValueOf(d, keys[j])
                    IN  CASE (c - 1) % 3 = 0 -> BarRect(j - 1, barW, val)
                          [] (c - 1) % 3 = 1 -> ValueText(j - 1, barW, val)
                          [] OTHER -> LabelText(j - 1, barW, keys[j])],
              stop <= Len(keys), {Len(keys)})

\* the bar branch, lines 78-102
DrawBars(d) ==
    LET keys == ObjectKeys(d)
    IN  IF Len(keys) = 0 THEN Drawn(<<>>, FALSE, {})
        ELSE FillBars(d, keys)

\* ctx.clearRect(0, 0, W, H), the grid, then the chart body `res`
Painted(res) ==
    Outcome(Grid \o res.body, TRUE, Grid, res.body, res.raised, res.divisors)

\* one run of the effect on a canvas that shows `shown`
Effect(shown, d, ty) ==
    IF AbsentData(d)
    THEN Outcome(shown, FALSE, <<>>, <<>>, FALSE, {})
    ELSE Painted(IF SeriesApplies(d, ty) THEN DrawSeries(d)
                 ELSE IF BarApplies(d, ty) THEN DrawBars(d)
                 ELSE Drawn(<<>>, FALSE, {}))

----------------------------------------------------------------------------
(* The analysis payloads the host passes as props.  Result passes          *)
(* phase2?.timeline_data with type "motion" and phase2?.stats?.averages    *)
(* and .variability with type "bar"; the payload is whatever JSON the      *)
(* backend sent, so a field may be missing or of another shape.            *)

Types == {"motion", "bar"}

KeyT == <<"t">>
KeyA == <<"a">>
KeyB == <<"b">>
KeyC == <<"c">>
KeyD == <<"d">>
KeyE == <<"e">>
KeyS == <<"s">>
KeyM == <<"m">>
Key1 == <<"1">>
KeyOpenness == <<"o", "p", "e", "n", "n", "e", "s", "s">>
KeyGestures == <<"g", "e", "s", "t", "u", "r", "e", "s">>
KeyEyeContact == <<"e", "y", "e", "_", "c", "o", "n", "t", "a", "c", "t">>
KeyPacing == <<"p", "a", "c", "i", "n", "g">>

\* the value of channel `key` in frame i (from 0) of n frames: each channel
\* carries its own signal; s is text, m is missing from the odd frames
Signal(key, i, n) ==
    CASE key \in {KeyTime, KeyT} -> Whole(i)
      [] key = KeyA -> IF n < 2 THEN Whole(0) ELSE Num(i, n - 1)
      [] key = KeyB -> IF n < 2 THEN Whole(1) ELSE Num(n - 1 - i, n - 1)
      [] key = KeyC -> Num(1, 2)
      [] key = KeyD -> Num(i + 1, n)
      [] key = KeyE -> Num(3, 2)
      [] key = KeyS -> Text
      [] key = KeyM -> IF i % 2 = 0 THEN Num(1, 4) ELSE Undefined
      [] OTHER -> Num(1, 2)

RECURSIVE PropsOf(_, _, _)
PropsOf(ks, i, n) ==
    IF ks = <<>> THEN <<>>
    ELSE (IF Signal(Head(ks), i, n) = Undefined THEN <<>>
          ELSE <<Prop(Head(ks), Signal(Head(ks), i, n))>>)
            \o PropsOf(Tail(ks), i, n)

\* n frames that carry the keys ks in this insertion order
Series(ks, n) == Arr([i \in 1..n |-> Obj(PropsOf(ks, i - 1, n))])

SeriesKeyLists ==
    { <<>>, <<KeyTime>>, <<KeyTime, KeyA>>, <<KeyTime, KeyA, KeyB>>,
      <<KeyT, KeyA, KeyB>>, <<KeyA, KeyB>>, <<KeyB, Key1>>,
      <<KeyTime, KeyS>>, <<KeyTime, KeyA, KeyM>>, <<KeyTime, KeyE>> }

WellFormedSeries == {Series(ks, n) : ks \in SeriesKeyLists, n \in 0..MaxFrames}

\* a sequence with one frame that is null or a bare number
BrokenSeries ==
    {Arr([Series(<<KeyTime, KeyA, KeyB>>, n).items EXCEPT ![j] = f]) :
        n \in 1..MaxFrames, j \in 1..MaxFrames, f \in {Null, Num(1, 2)}}

\* a sequence of bare numbers
NumberLists == {Arr([i \in 1..n |-> Num(i, n)]) : n \in 1..MaxFrames}

CategoryMaps ==
    { Obj(<<>>),
      Obj(<<Prop(KeyOpenness, Num(1, 2)), Prop(KeyPacing, Whole(1))>>),
      Obj(<<Prop(KeyOpenness, Num(1, 4)), Prop(KeyGestures, Whole(0)),
            Prop(KeyEyeContact, Num(3, 4)), Prop(KeyPacing, Num(1, 3))>>),
      Obj(<<Prop(KeyA, Text)>>),
      Obj(<<Prop(KeyA, Num(1, 2)), Prop(KeyS, Text), Prop(KeyB, Whole(1))>>),
      Obj(<<Prop(KeyE, Num(3, 2)), Prop(KeyA, Num(-1, 2))>>),
      Obj(<<Prop(KeyB, Num(1, 2)), Prop(Key1, Whole(1))>>),
      Obj(<<Prop(KeyA, Obj(<<>>))>>) }

DataInputs ==
    {Undefined, Null} \cup WellFormedSeries \cup BrokenSeries
        \cup NumberLists \cup CategoryMaps

----------------------------------------------------------------------------
(* The Home page.  isAnalyzing and error are its useState cells; pc is the *)
(* place where the submit handler is suspended ("rest" when no handler is  *)
(* running, otherwise the await it waits at); response is the handler's    *)
(* local of that name, the content type and the status of what the server  *)
(* answered; onSuccess tells whether the parent passed the callback;       *)
(* delivered lists the results handed to it.                               *)
(* The state updates of one stretch of the handler are committed together  *)
(* (React batches the updates made in one synchronous stretch), so the     *)
(* page is never rendered between two of them.                             *)

\* a string value with its text
Message(m) == JsVal("string", 0, 1, <<m>>)

\* the texts of the errors the handler throws itself
HtmlInsteadOfJson ==
    "Backend returned HTML (HTML Page) instead of JSON Data. Did you update routes/web.py?"

ServerError(status) ==
    CASE status = 404 -> "Server Error: 404 Not Found"
      [] status = 500 -> "Server Error: 500 Internal Server Error"
      [] status = 503 -> "Server Error: 503 Service Unavailable"

Unexpected == "An unexpected error occurred"

\* the content types a response arrives with (null: no such header)
ContentTypes == {"null", "text/html", "application/json", "application/json; charset=utf-8"}

\* contentType.includes("application/json")
IncludesJson(ct) == ct \in {"application/json", "application/json; charset=utf-8"}

\* the statuses a response arrives with; response.ok is status in 200..299
Statuses == {200, 404, 500, 503}

Ok(status) == status >= 200 /\ status <= 299

\* the messages of the errors a rejected fetch, text() or json() carries,
\* and of what a callback throws; the empty one has no message to show
FetchFailures == {"Failed to fetch", ""}
BodyFailures == {"The operation was aborted.", ""}
ParseFailures == {"Unexpected end of JSON input"}
CallbackFailures == {"Cannot read properties of undefined", ""}

\* a response by its content-type header and status; none before one came
Response(ct, status) == <<ct, status>>

NoResponse == <<>>

\* the values response.json() resolves with
Results == {Null, Obj(<<>>)}

\* const [isAnalyzing, setIsAnalyzing] = useState(false);
\* const [error, setError] = useState(null);
HomeMount(cb) ==
    /\ isAnalyzing = FALSE
    /\ error = Null
    /\ onSuccess = cb
    /\ pc = "rest"
    /\ response = NoResponse
    /\ delivered = <<>>
    /\ submits = 0

\* the form exists only in the render that is not the analyzing view
FormShown == ~isAnalyzing

\* the catch block: setError(err.message || "..."); setIsAnalyzing(false)
Catch(message) ==
    /\ error' = Message(IF message = "" THEN Unexpected ELSE message)
    /\ isAnalyzing' = FALSE
    /\ pc' = "rest"
    /\ response' = NoResponse
    /\ UNCHANGED <<onSuccess, delivered, submits>>

\* handleSubmit up to the first await: setError(null); setIsAnalyzing(true);
\* fetch(...)
Submit ==
    /\ FormShown
    /\ pc = "rest"
    /\ submits < MaxSubmits
    /\ error' = Null
    /\ isAnalyzing' = TRUE
    /\ pc' = "fetch"
    /\ response' = NoResponse
    /\ submits' = submits + 1
    /\ UNCHANGED <<onSuccess, delivered>>
    /\ UNCHANGED chartVars

\* the stretch after await fetch(...): the request fails, or a response
\* arrives and its content type and status are looked at
FetchSettles ==
    /\ pc = "fetch"
    /\ \/ \E m \in FetchFailures : Catch(m)
       \/ \E ct \in ContentTypes, status \in Statuses :
            IF ct = "null" \/ ~IncludesJson(ct)
            THEN /\ pc' = "text"
                 /\ response' = Response(ct, status)
                 /\ UNCHANGED <<isAnalyzing, error, onSuccess, delivered, submits>>
            ELSE IF ~Ok(status)
            THEN Catch(ServerError(status))
            ELSE /\ pc' = "json"
                 /\ response' = Response(ct, status)
                 /\ UNCHANGED <<isAnalyzing, error, onSuccess, delivered, submits>>
    /\ UNCHANGED chartVars

\* the stretch after await response.text(): reading the body fails, or it
\* is logged and the handler throws
TextSettles ==
    /\ pc = "text"
    /\ \/ \E m \in BodyFailures : Catch(m)
       \/ Catch(HtmlInsteadOfJson)
    /\ UNCHANGED chartVars

\* the stretch after await response.json(): parsing fails, or the result
\* is handed to onSuccess when there is one (which may throw), and the
\* handler returns
JsonSettles ==
    /\ pc = "json"
    /\ \/ \E m \in ParseFailures : Catch(m)
       \/ \E result \in Results :
            IF onSuccess
            THEN \/ /\ delivered' = Append(delivered, result)
                    /\ pc' = "rest"
                    /\ response' = NoResponse
                    /\ UNCHANGED <<isAnalyzing, error, onSuccess, submits>>
                 \/ \E m \in CallbackFailures : Catch(m)
            ELSE /\ pc' = "rest"
                 /\ response' = NoResponse
                 /\ UNCHANGED <<isAnalyzing, error, onSuccess, delivered, submits>>
    /\ UNCHANGED chartVars

----------------------------------------------------------------------------
(* The component: mounting it and re-rendering it with new props.  The     *)
(* effect depends on [data, type] and runs after every change of them.     *)

Ran(e) ==
    [cleared |-> e.cleared, grid |-> e.grid, body |-> e.body,
     raised |-> e.raised, divisors |-> e.divisors]

\* the first render: the canvas is blank when the effect runs
Mount(d, ty) ==
    \E e \in {Effect(<<>>, d, ty)} :
        /\ data = d
        /\ type = ty
        /\ surface = e.surface
        /\ run = Ran(e)
        /\ last = "mount"

\* a render with props (d, ty); the effect runs on the canvas as it is
Update(d, ty, how) ==
    \E e \in {Effect(surface, d, ty)} :
        /\ data' = d
        /\ type' = ty
        /\ surface' = e.surface
        /\ run' = Ran(e)
        /\ last' = how
        /\ UNCHANGED homeVars

Render == \E d \in DataInputs, ty \in Types : Update(d, ty, "render")

\* the keys a new channel may take
NewChannelKeys == {KeyC, KeyD, KeyE, Key1}

IsSeries(d) ==
    /\ d.t = "array"
    /\ Len(d.items) >= 2
    /\ \A i \in 1..Len(d.items) : d.items[i].t = "object"

HasKey(obj, k) == \E i \in 1..Len(obj.items) : obj.items[i].k = k

\* every frame of the series with the property k added after its own
WithChannel(d, k) ==
    Arr([i \in 1..Len(d.items) |->
            Obj(Append(d.items[i].items,
                       Prop(k, Signal(k, i - 1, Len(d.items)))))])

\* the payload gains a channel and the chart is rendered again
AddChannel ==
    /\ type = "motion"
    /\ IsSeries(data)
    /\ Len(data.items[1].items) < MaxChannels
    /\ \E k \in NewChannelKeys :
        /\ \A i \in 1..Len(data.items) : ~HasKey(data.items[i], k)
        /\ Update(WithChannel(data, k), type, "addChannel")

\* App shows the Result page (the charts) or the Home page; Home is in
\* its first state while the charts are studied
Init ==
    /\ \E d \in DataInputs, ty \in Types : Mount(d, ty)
    /\ HomeMount(FALSE)

Next == Render \/ AddChannel

Spec == Init /\ [][Next]_vars

----------------------------------------------------------------------------
(* Bar charts that grow one category at a time (stats.averages with more   *)
(* and more entries), to study how the slots divide the width              *)

CatKey(j) == <<"c">> \o Decimal(j)

CatValue(j) == Num(j % 5, 4)

FirstValues == {Whole(0), Num(1, 2), Whole(1)}

InitBars ==
    /\ \E v \in FirstValues : Mount(Obj(<<Prop(CatKey(0), v)>>), "bar")
    /\ HomeMount(FALSE)

\* the payload gains a category and the chart is rendered again
AddCategory ==
    /\ type = "bar"
    /\ data.t = "object"
    /\ Len(data.items) < MaxCats
    /\ Update(Obj(Append(data.items,
                         Prop(CatKey(Len(data.items)), CatValue(Len(data.items))))),
              "bar", "addCategory")

NextBars == AddCategory

SpecBars == InitBars /\ [][NextBars]_vars

----------------------------------------------------------------------------
(* Bar charts of one category under every short key, to study the label    *)

LabelChars == {"a", "b", "_", " "}

LabelKeys == UNION {[1..n -> LabelChars] : n \in 0..MaxKeyLen}

LabelValues == {Num(1, 2), Whole(1)}

InitLabel ==
    /\ \E k \in LabelKeys, v \in LabelValues : Mount(Obj(<<Prop(k, v)>>), "bar")
    /\ HomeMount(FALSE)

Relabel ==
    \E k \in LabelKeys, v \in LabelValues :
        Update(Obj(<<Prop(k, v)>>), "bar", "render")

NextLabel == Relabel

SpecLabel == InitLabel /\ [][NextLabel]_vars

----------------------------------------------------------------------------
(* The Home page under submissions: no chart has data while Home is shown. *)
(* A request that was sent settles (the premise of the claims about the    *)
(* analyzing state), and so does the reading of a body: weak fairness of   *)
(* the three stretches that follow an await.                               *)

InitHome ==
    /\ Mount(Undefined, "bar")
    /\ \E cb \in BOOLEAN : HomeMount(cb)

NextHome == Submit \/ FetchSettles \/ TextSettles \/ JsonSettles

SpecHome ==
    /\ InitHome
    /\ [][NextHome]_vars
    /\ WF_vars(FetchSettles)
    /\ WF_vars(TextSettles)
    /\ WF_vars(JsonSettles)

----------------------------------------------------------------------------
(* What a run left for the eye.  The drawing context ignores a fillRect or *)
(* fillText whose coordinates are not finite, and a rectangle of no width  *)
(* or height covers nothing.                                               *)

Inked(p) ==
    CASE p.op = "stroke" -> TRUE
      [] p.op = "fillRect" ->
            /\ IsNum(p.x) /\ IsNum(p.y) /\ IsNum(p.w) /\ IsNum(p.h)
            /\ p.w.n # 0 /\ p.h.n # 0
      [] OTHER -> IsNum(p.x) /\ IsNum(p.y)

Rects(body) == SelectSeq(body, LAMBDA p : p.op = "fillRect")

Labels(body) ==
    SelectSeq(body, LAMBDA p : p.op = "fillText" /\ p.font = LabelFont)

----------------------------------------------------------------------------
(* C1 *)

\* C1: no run of the effect raises an exception, whatever the chart kind
\* and the data, malformed data included.
RenderNeverRaises == ~run.raised

----------------------------------------------------------------------------
(* C2 *)

\* C2: every run is a full repaint: it clears the surface and draws the 5
\* guide lines first, also when the data is absent, so the surface shows
\* what the last run drew and nothing an earlier run drew.
EveryRunRepaints ==
    /\ run.cleared
    /\ Len(run.grid) = 5
    /\ surface = run.grid \o run.body

----------------------------------------------------------------------------
(* C3 *)

ShapeMismatch ==
    \/ type = "motion" /\ data.t = "object"
    \/ type = "bar" /\ data.t = "array"

\* C3: when the data has the other kind's shape (a mapping in series mode,
\* a sequence in bar mode) the run draws no chart body: no path, no bar, no
\* label.
MismatchDrawsNoBody ==
    ShapeMismatch => \A i \in 1..Len(run.body) : ~Inked(run.body[i])

----------------------------------------------------------------------------
(* C4 *)

Degenerate ==
    \/ data.t \in {"undefined", "null"}
    \/ type = "motion" /\ data.t = "array" /\ Len(data.items) < 2
    \/ type = "bar" /\ data.t = "object" /\ data.items = <<>>

\* C4: a run on absent data, on a sequence of fewer than 2 frames in series
\* mode or on an empty mapping in bar mode draws no chart body and divides
\* by nothing, and no run ever divides by zero in a position formula.
DegenerateDrawsNothing ==
    /\ 0 \notin run.divisors
    /\ Degenerate => run.body = <<>> /\ run.divisors = {} /\ ~run.raised

\* a one-frame series with a channel has been rendered in series mode
OneFrameRendered ==
    /\ type = "motion"
    /\ data.t = "array"
    /\ Len(data.items) = 1
    /\ data.items[1].t = "object"
    /\ ChannelKeys(data.items[1]) # <<>>
    /\ run.cleared
    /\ last = "render"

----------------------------------------------------------------------------
(* C5 *)

\* bar width plus 10 of margin, summed over the bars lo..hi
RECURSIVE SlotsSumOver(_, _, _)
SlotsSumOver(rs, lo, hi) ==
    IF lo > hi THEN Whole(0)
    ELSE IF lo = hi THEN JsAdd(rs[lo].w, Whole(10))
    ELSE JsAdd(SlotsSumOver(rs, lo, (lo + hi) \div 2),
               SlotsSumOver(rs, ((lo + hi) \div 2) + 1, hi))

SlotsSum(rs) == SlotsSumOver(rs, 1, Len(rs))

\* the horizontal extent of a filled rectangle, whatever the sign of w
Left(r) == IF r.w.n < 0 THEN JsAdd(r.x, r.w) ELSE r.x
Right(r) == IF r.w.n < 0 THEN r.x ELSE JsAdd(r.x, r.w)

\* the m bars of a run: bar width plus 10 of margin sum to W-20 over the
\* slots, bar j (from 0) starts at 10 + j*slot + 5, every bar has positive
\* width and lies between 0 and W, and no two bars overlap
BarsPartition(rs) ==
    /\ SlotsSum(rs) = Whole(W - 20)
    /\ \A j \in 1..Len(rs) :
        /\ rs[j].x = Num(15 * Len(rs) + (j - 1) * (W - 20), Len(rs))
        /\ rs[j].w = Num(W - 20 - 10 * Len(rs), Len(rs))
        /\ rs[j].w.n > 0
        /\ Le(Whole(0), Left(rs[j]))
        /\ Le(Right(rs[j]), Whole(W))
    /\ \A j \in 1..(Len(rs) - 1) : Le(Right(rs[j]), Left(rs[j + 1]))

BarsDrawn == type = "bar" /\ ~run.raised /\ Len(Rects(run.body)) >= 1

\* C5 as stated: the partition holds for every category count m >= 1.
BarPartitionEveryCount == BarsDrawn => BarsPartition(Rects(run.body))

\* C5: for every category count m >= 1 with 10*m < W-20 (slots wider than
\* the 10 of margin), the m slots sum to W-20, bar j starts at
\* 10 + j*slot + 5 with width slot-10 > 0 inside the surface, and no two
\* bars overlap.
BarPartitionWideSlots ==
    (BarsDrawn /\ 10 * Len(Rects(run.body)) < W - 20)
        => BarsPartition(Rects(run.body))

\* the widest chart the amended claim covers has been drawn
NarrowestBarsDrawn ==
    /\ BarsDrawn
    /\ last = "addCategory"
    /\ 10 * (Len(Rects(run.body)) + 1) >= W - 20
    /\ 10 * Len(Rects(run.body)) < W - 20

----------------------------------------------------------------------------
(* C6 *)

\* the keys of a frame as they were first seen (insertion order)
FirstSeenKeys(frame) == [i \in 1..Len(frame.items) |-> frame.items[i].k]

\* the keys of a frame as Object.keys lists them: the integer-like keys in
\* ascending order, then the others as first seen
ListedKeys(frame) ==
    SortKeys({k \in SeqToSet(FirstSeenKeys(frame)) : IsArrayIndex(k)})
        \o SelectSeq(FirstSeenKeys(frame), LAMBDA k : ~IsArrayIndex(k))

NoNullFrame == \A i \in 1..Len(data.items) : ~Nullish(data.items[i])

\* one stroked path per key of ks, in this order, palette colour by position
OnePathPerKey(ks) ==
    /\ ~run.raised
    /\ Len(run.body) = Len(ks)
    /\ \A k \in 1..Len(ks) :
        run.body[k] = Stroke(colors[((k - 1) % 4) + 1], 2, PathOf(data, ks[k]))

P(x, y) == <<Whole(x), Whole(y)>>

ScenarioT == Series(<<KeyT, KeyA, KeyB>>, 2)
ScenarioTime == Series(<<KeyTime, KeyA, KeyB>>, 2)

\* exactly two paths: a from (0,180) to (800,20), b from (0,20) to (800,180)
TwoPathsAB ==
    /\ Len(run.body) = 2
    /\ run.body[1].pts = <<P(0, 180), P(800, 20)>>
    /\ run.body[2].pts = <<P(0, 20), P(800, 180)>>

----------------------------------------------------------------------------
(* C7 *)

\* the key the last AddChannel gave every frame
AddedKey(d) == d.items[1].items[Len(d.items[1].items)].k

\* one more path, in the palette colour of its position, after the paths
\* that were there, which keep their points and colours
ChannelAdded ==
    /\ Len(run'.body) = Len(run.body) + 1
    /\ \A k \in 1..Len(run.body) : run'.body[k] = run.body[k]
    /\ run'.body[Len(run'.body)].style = colors[(Len(run.body) % 4) + 1]

\* C7 as stated: adding a new channel key to every frame of a series adds
\* exactly one path in the next palette colour and leaves the existing
\* channels' points and colours as they were.
ChannelIndependence == [][last' = "addChannel" => ChannelAdded]_vars

\* C7: adding a new channel key that is not integer-like to every frame of
\* a series of n >= 2 frames adds exactly one path, coloured
\* colors[k mod 4] for its position k, and leaves every existing channel's
\* points and colour as they were.
ChannelIndependenceNamed ==
    [][(last' = "addChannel" /\ ~IsArrayIndex(AddedKey(data')))
            => ChannelAdded]_vars

\* a fifth channel has been added and drawn in the first colour again
FifthChannelAdded ==
    /\ last = "addChannel"
    /\ ~IsArrayIndex(AddedKey(data))
    /\ Len(run.body) = 5
    /\ run.body[5].style = colors[1]

----------------------------------------------------------------------------
(* C8 *)

\* C8: in series mode every path has one point per frame, in frame order,
\* at x = (i/(n-1))*W: the first x is 0, the last is exactly W and x grows
\* strictly from point to point.
EndpointAnchoring ==
    SeriesApplies(data, type) =>
        \A k \in 1..Len(run.body) :
            LET pts == run.body[k].pts
                n == Len(data.items)
            IN  /\ Len(pts) = n
                /\ pts[1][1] = Whole(0)
                /\ pts[n][1] = Whole(W)
                /\ \A i \in 1..n : pts[i][1] = Num((i - 1) * W, n - 1)
                /\ \A i \in 1..(n - 1) : Lt(pts[i][1], pts[i + 1][1])

\* a series of four frames has been drawn: x = 0, W/3, 2W/3, W
FourFramesDrawn ==
    /\ type = "motion"
    /\ data.t = "array"
    /\ Len(data.items) = 4
    /\ Len(run.body) >= 2

----------------------------------------------------------------------------
(* C9 *)

InUnit(v) == IsNum(v) /\ Le(Whole(0), v) /\ Le(v, Whole(1))

\* y for a value v in [0,1]: H-20 - v*(H-40), inside [20, H-20], the
\* baseline for 0 and the top for 1
InBand(y, v) ==
    /\ y = Num((H - 20) * v.d - v.n * (H - 40), v.d)
    /\ Le(Whole(20), y) /\ Le(y, Whole(H - 20))
    /\ v = Whole(0) => y = Whole(H - 20)
    /\ v = Whole(1) => y = Whole(20)

ScenarioBars ==
    Obj(<<Prop(KeyOpenness, Num(1, 2)), Prop(KeyPacing, Whole(1))>>)

\* C9: every series point and every bar top of a value in [0,1] lies in
\* the band [20, H-20] at H-20 - v*(H-40); every bar ends exactly on the
\* baseline H-20; {openness:0.5, pacing:1.0} on 800x200 gives bars 380
\* wide, 80 and 160 high.
VerticalBand ==
    /\ (SeriesApplies(data, type) /\ NoNullFrame) =>
        \A k \in 1..Len(run.body) : \A i \in 1..Len(data.items) :
            LET v == ValueOf(data.items[i], ChannelKeys(data.items[1])[k])
            IN  InUnit(v) => InBand(run.body[k].pts[i][2], v)
    /\ (type = "bar" /\ data.t \in {"object", "array"}) =>
        \A j \in 1..Len(Rects(run.body)) :
            LET v == ValueOf(data, ObjectKeys(data)[j])
                r == Rects(run.body)[j]
            IN  /\ IsNum(v) => JsAdd(r.y, r.h) = Whole(H - 20)
                /\ InUnit(v) => InBand(r.y, v)
    /\ (type = "bar" /\ data = ScenarioBars) =>
        /\ Len(Rects(run.body)) = 2
        /\ Rects(run.body)[1].w = Whole(380)
        /\ Rects(run.body)[2].w = Whole(380)
        /\ Rects(run.body)[1].h = Whole(80)
        /\ Rects(run.body)[2].h = Whole(160)

\* the scenario's two bars have been drawn
ScenarioBarsDrawn ==
    /\ type = "bar"
    /\ data = ScenarioBars
    /\ Len(Rects(run.body)) = 2
    /\ last = "render"

----------------------------------------------------------------------------
(* C10 *)

\* the first maximal run of characters other than the space, empty when
\* there is none
FirstWord(s) ==
    IF \A i \in 1..Len(s) : s[i] = " " THEN <<>>
    ELSE LET from == CHOOSE i \in 1..Len(s) :
                        s[i] # " " /\ \A j \in 1..(i - 1) : s[j] = " "
             to == CHOOSE i \in from..Len(s) :
                        /\ \A j \in from..i : s[j] # " "
                        /\ (i = Len(s) \/ s[i + 1] = " ")
         IN  SubSeq(s, from, to)

\* C10: the label under each bar is the first word of the category key
\* after underscores are replaced by spaces, for every key.
LabelIsFirstWord ==
    (type = "bar" /\ data.t = "object") =>
        \A j \in 1..Len(Labels(run.body)) :
            Labels(run.body)[j].text
                = FirstWord(ReplaceUnderscores(ObjectKeys(data)[j]))

----------------------------------------------------------------------------
(* C11 *)

\* C11: every submission of the Home form leaves the analyzing state: once
\* the request has settled and the handler is at rest, with a JSON result
\* or with any failure, with or without an onSuccess callback, isAnalyzing
\* is false again; and while isAnalyzing is true error is null.
AnalyzingEndsOnceSettled ==
    /\ pc = "rest" => ~isAnalyzing
    /\ isAnalyzing => error = Null

====
